---- MODULE Spec2Model ----
(***************************************************************************)
(* Model of run.py: the wrapper that opens an SSH tunnel, runs git.sh and  *)
(* start_mlflow.sh on the remote host, submits train.sh with sbatch,       *)
(* checks the queue, opens the browser, prints a verification summary and  *)
(* then idles until Ctrl-C.                                                *)
(*                                                                         *)
(* Text is a sequence of one-character strings.  The environment (port     *)
(* checks, HTTP checks, remote exit codes, remote stdout, Ctrl-C) is       *)
(* nondeterministic.                                                       *)
(***************************************************************************)
EXTENDS Integers, Sequences, FiniteSets, TLC

VARIABLES pc, tunnel_proc, terminateCalls, tunnelPolls, mflowPolls, lastPoll,
          mflow, returncode, commands, submission, job_id, count, delayed,
          browser, summary, idleTicks, exitStatus, exitCause, events,
          portFirstOpen, finalHttp, stdout, result

vars == << pc, tunnel_proc, terminateCalls, tunnelPolls, mflowPolls, lastPoll,
           mflow, returncode, commands, submission, job_id, count, delayed,
           browser, summary, idleTicks, exitStatus, exitCause, events,
           portFirstOpen, finalHttp, stdout, result >>

----------------------------------------------------------------------------
(* Configuration, run.py:25-32 *)

TUNNEL_RETRY == 5

MFLOW_RETRY == 10

(* Bounds of the model *)

MaxLen == 3

MaxCountLen == 1

MaxIdleTicks == 1

(* "j" stands for a letter, "0" and "1" for digits, " " for whitespace *)
Alphabet == {"j", "0", "1", " "}

Digits == {"0", "1"}

RECURSIVE TextUpTo(_, _)
TextUpTo(n, chars) ==
    IF n = 0 THEN {<< >>}
    ELSE LET shorter == TextUpTo(n - 1, chars)
         IN  shorter \cup {Append(s, c) : s \in shorter, c \in chars}

(* stdout of git.sh, start_mlflow.sh and sbatch: words, numbers, whitespace *)
Stdouts == TextUpTo(MaxLen, Alphabet \ {"0"})

(* stdout of "squeue -j <id> -h | wc -l": digits and whitespace *)
CountStdouts == TextUpTo(MaxCountLen, Alphabet \ {"j"})

(* exit codes of the ssh child: 0, a remote failure, ssh's own failure *)
ReturnCodes == {0, 1, 255}

(* Python's None, and a local name that was never assigned *)
None == << "None" >>

Unbound == << "unbound" >>

NoExit == 0 - 1

(* exit status of the interpreter on an uncaught KeyboardInterrupt:        *)
(* 1 (traceback) before Python 3.8, death by SIGINT (130) from 3.8 on      *)
UncaughtInterruptStatus == {1, 130}

----------------------------------------------------------------------------
(* str.strip() and str.split() *)

IsSpace(c) == c = " "

RECURSIVE LStrip(_)
LStrip(s) ==
    IF s = << >> THEN s
    ELSE IF IsSpace(Head(s)) THEN LStrip(Tail(s)) ELSE s

RECURSIVE RStrip(_)
RStrip(s) ==
    IF s = << >> THEN s
    ELSE IF IsSpace(s[Len(s)]) THEN RStrip(SubSeq(s, 1, Len(s) - 1)) ELSE s

Strip(s) == LStrip(RStrip(s))

RECURSIVE SplitAcc(_, _, _)
SplitAcc(s, cur, acc) ==
    LET flushed == IF cur = << >> THEN acc ELSE Append(acc, cur)
    IN  IF s = << >> THEN flushed
        ELSE IF IsSpace(Head(s)) THEN SplitAcc(Tail(s), << >>, flushed)
        ELSE SplitAcc(Tail(s), Append(cur, Head(s)), acc)

Split(s) == SplitAcc(s, << >>, << >>)

----------------------------------------------------------------------------
(* run_remote_command: exit on a non-zero return code, else stripped stdout *)

(* variant: only exit code 1 is taken for a failure *)
RemoteFailed_OnlyOne(rc) == rc = 1

RemoteFailed(rc) == rc # 0

(* variant: rstrip() in place of strip() *)
RemoteValue_RStripOnly(out) == RStrip(out)

RemoteValue(out) == Strip(out)

(* main, lines 102-106: last whitespace-delimited token, None on IndexError *)
ParseJobId(text) ==
    LET toks == Split(Strip(text))
    IN  IF toks = << >> THEN None ELSE toks[Len(toks)]

(* variant: the guard on job_id is missing *)
JobIdTruthy_Always(j) == TRUE

(* truth value of job_id in "if job_id:" *)
JobIdTruthy(j) == j # None /\ j # << >>

(* variant: count compared with the number 0, which no text equals *)
JobRunning_Always(c) == TRUE

(* main, lines 113 and 131 *)
JobRunning(c) == Strip(c) # << "0" >>

YesNo(b) == IF b THEN "yes" ELSE "no"

NoSummary == [printed |-> FALSE, tunnel |-> "-", mlflow |-> "-", job |-> "-"]

----------------------------------------------------------------------------
Init ==
    /\ pc = "start"
    /\ tunnel_proc = "none"
    /\ terminateCalls = 0
    /\ tunnelPolls = 0
    /\ mflowPolls = 0
    /\ lastPoll = "none"
    /\ mflow = "pending"
    /\ returncode = 0
    /\ commands = << >>
    /\ submission = Unbound
    /\ job_id = Unbound
    /\ count = Unbound
    /\ delayed = FALSE
    /\ browser = "none"
    /\ summary = NoSummary
    /\ idleTicks = 0
    /\ exitStatus = NoExit
    /\ exitCause = "none"
    /\ events = << >>
    /\ portFirstOpen = 0
    /\ finalHttp = "none"
    /\ stdout = Unbound
    /\ result = Unbound

(* sys.exit(1) in run_remote_command: the tunnel handle is not touched *)
RemoteExit(cmd, rc) ==
    /\ pc' = "exited"
    /\ returncode' = rc
    /\ commands' = Append(commands, cmd)
    /\ exitStatus' = 1
    /\ exitCause' = "remote_failure"
    /\ events' = Append(events, "remote_failed")

(* subprocess.Popen(cmd) in start_ssh_tunnel *)
SpawnTunnel ==
    /\ pc = "start"
    /\ pc' = "tunnel_poll"
    /\ tunnel_proc' = "running"
    /\ events' = Append(events, "tunnel_spawned")
    /\ UNCHANGED << terminateCalls, tunnelPolls, mflowPolls, lastPoll, mflow,
                    returncode, commands, submission, job_id, count, delayed,
                    browser, summary, idleTicks, exitStatus, exitCause,
                    portFirstOpen, finalHttp,
                    stdout, result >>

(* variant: the loop does not return on the first open poll, it uses up   *)
(* the retry budget and returns after the loop                             *)
TunnelPoll_NoEarlyReturn ==
    /\ pc = "tunnel_poll"
    /\ tunnelPolls < TUNNEL_RETRY
    /\ \E open \in BOOLEAN :
         /\ tunnelPolls' = tunnelPolls + 1
         /\ portFirstOpen' = IF open /\ portFirstOpen = 0
                              THEN tunnelPolls + 1 ELSE portFirstOpen
         /\ IF (open \/ portFirstOpen # 0) /\ tunnelPolls + 1 = TUNNEL_RETRY
            THEN /\ pc' = "git"
                 /\ events' = Append(events, "tunnel_up")
            ELSE /\ pc' = "tunnel_poll"
                 /\ events' = events
    /\ UNCHANGED << tunnel_proc, terminateCalls, mflowPolls, lastPoll, mflow,
                    returncode, commands, submission, job_id, count, delayed,
                    browser, summary, idleTicks, exitStatus, exitCause,
                    finalHttp,
                    stdout, result >>

(* one iteration of the loop of start_ssh_tunnel *)
TunnelPoll ==
    /\ pc = "tunnel_poll"
    /\ tunnelPolls < TUNNEL_RETRY
    /\ \E open \in BOOLEAN :
         /\ tunnelPolls' = tunnelPolls + 1
         /\ portFirstOpen' = IF open /\ portFirstOpen = 0
                              THEN tunnelPolls + 1 ELSE portFirstOpen
         /\ IF open
            THEN /\ pc' = "git"
                 /\ events' = Append(events, "tunnel_up")
            ELSE /\ pc' = "tunnel_poll"
                 /\ events' = events
    /\ UNCHANGED << tunnel_proc, terminateCalls, mflowPolls, lastPoll, mflow,
                    returncode, commands, submission, job_id, count, delayed,
                    browser, summary, idleTicks, exitStatus, exitCause,
                    finalHttp,
                    stdout, result >>

(* variant: exit(1) without proc.terminate() *)
TunnelFailure_NoTerminate ==
    /\ pc = "tunnel_poll"
    /\ tunnelPolls = TUNNEL_RETRY
    /\ pc' = "exited"
    /\ exitStatus' = 1
    /\ exitCause' = "tunnel_failure"
    /\ events' = Append(events, "tunnel_failed")
    /\ UNCHANGED << tunnel_proc, terminateCalls, tunnelPolls, mflowPolls,
                    lastPoll, mflow, returncode, commands, submission, job_id,
                    count, delayed, browser, summary, idleTicks,
                    portFirstOpen, finalHttp,
                    stdout, result >>

(* the loop of start_ssh_tunnel ran out: terminate and exit(1) *)
TunnelFailure ==
    /\ pc = "tunnel_poll"
    /\ tunnelPolls = TUNNEL_RETRY
    /\ pc' = "exited"
    /\ tunnel_proc' = "terminated"
    /\ terminateCalls' = terminateCalls + 1
    /\ exitStatus' = 1
    /\ exitCause' = "tunnel_failure"
    /\ events' = Append(events, "tunnel_failed")
    /\ UNCHANGED << tunnelPolls, mflowPolls, lastPoll, mflow, returncode,
                    commands, submission, job_id, count, delayed, browser,
                    summary, idleTicks,
                    portFirstOpen, finalHttp,
                    stdout, result >>

(* variant: a failed git.sh is run again instead of ending the run *)
RunGit_RetryOnFailure ==
    /\ pc = "git"
    /\ \E rc \in ReturnCodes, out \in Stdouts :
         /\ returncode' = rc
         /\ commands' = Append(commands, "git")
         /\ IF RemoteFailed(rc)
            THEN pc' = "git" /\ events' = events
            ELSE pc' = "mlflow_start" /\ events' = Append(events, "sync_done")
    /\ UNCHANGED << tunnel_proc, terminateCalls, tunnelPolls, mflowPolls,
                    lastPoll, mflow, submission, job_id, count, delayed,
                    browser, summary, idleTicks, exitStatus, exitCause,
                    portFirstOpen, finalHttp,
                    stdout, result >>

(* run_remote_command("bash ...git.sh") *)
RunGit ==
    /\ pc = "git"
    /\ \E rc \in ReturnCodes, out \in Stdouts :
         IF RemoteFailed(rc)
         THEN RemoteExit("git", rc)
         ELSE /\ pc' = "mlflow_start"
              /\ returncode' = rc
              /\ commands' = Append(commands, "git")
              /\ events' = Append(events, "sync_done")
              /\ UNCHANGED << exitStatus, exitCause >>
    /\ UNCHANGED << tunnel_proc, terminateCalls, tunnelPolls, mflowPolls,
                    lastPoll, mflow, submission, job_id, count, delayed,
                    browser, summary, idleTicks,
                    portFirstOpen, finalHttp,
                    stdout, result >>

(* variant: the job is submitted right after the start command, the      *)
(* dashboard is not waited for                                             *)
RunMlflowStart_SkipPolling ==
    /\ pc = "mlflow_start"
    /\ \E rc \in ReturnCodes, out \in Stdouts :
         IF RemoteFailed(rc)
         THEN RemoteExit("mlflow", rc)
         ELSE /\ pc' = "submit"
              /\ returncode' = rc
              /\ commands' = Append(commands, "mlflow")
              /\ events' = Append(events, "dashboard_started")
              /\ UNCHANGED << exitStatus, exitCause >>
    /\ UNCHANGED << tunnel_proc, terminateCalls, tunnelPolls, mflowPolls,
                    lastPoll, mflow, submission, job_id, count, delayed,
                    browser, summary, idleTicks, portFirstOpen, finalHttp,
                    stdout, result >>

(* run_remote_command("bash ...start_mlflow.sh &") *)
RunMlflowStart ==
    /\ pc = "mlflow_start"
    /\ \E rc \in ReturnCodes, out \in Stdouts :
         IF RemoteFailed(rc)
         THEN RemoteExit("mlflow", rc)
         ELSE /\ pc' = "mlflow_poll"
              /\ returncode' = rc
              /\ commands' = Append(commands, "mlflow")
              /\ events' = Append(events, "dashboard_started")
              /\ UNCHANGED << exitStatus, exitCause >>
    /\ UNCHANGED << tunnel_proc, terminateCalls, tunnelPolls, mflowPolls,
                    lastPoll, mflow, submission, job_id, count, delayed,
                    browser, summary, idleTicks,
                    portFirstOpen, finalHttp,
                    stdout, result >>

(* variant: no break, the loop goes on after the dashboard answered *)
MlflowPoll_NoBreak ==
    /\ pc = "mlflow_poll"
    /\ mflowPolls < MFLOW_RETRY
    /\ \E open \in BOOLEAN, http \in BOOLEAN :
         /\ mflowPolls' = mflowPolls + 1
         /\ lastPoll' = IF ~open THEN "port_closed"
                        ELSE IF http THEN "ok" ELSE "http_failed"
         /\ IF open /\ http
            THEN /\ mflow' = "reachable"
                 /\ events' = Append(events, "dashboard_reachable")
            ELSE /\ mflow' = mflow
                 /\ events' = events
         /\ pc' = IF mflowPolls + 1 = MFLOW_RETRY /\ (mflow = "reachable" \/ (open /\ http))
                   THEN "submit" ELSE "mlflow_poll"
    /\ UNCHANGED << tunnel_proc, terminateCalls, tunnelPolls, returncode,
                    commands, submission, job_id, count, delayed, browser,
                    summary, idleTicks, exitStatus, exitCause, portFirstOpen,
                    finalHttp, stdout, result >>

(* variant: "while True" in place of the counted loop *)
MlflowPoll_Forever ==
    /\ pc = "mlflow_poll"
    /\ \E open \in BOOLEAN, http \in BOOLEAN :
         /\ mflowPolls' = IF mflowPolls < MFLOW_RETRY THEN mflowPolls + 1
                                                       ELSE 1
         /\ lastPoll' = IF ~open THEN "port_closed"
                        ELSE IF http THEN "ok" ELSE "http_failed"
         /\ IF open /\ http
            THEN /\ pc' = "submit"
                 /\ mflow' = "reachable"
                 /\ events' = Append(events, "dashboard_reachable")
            ELSE /\ pc' = "mlflow_poll"
                 /\ mflow' = mflow
                 /\ events' = events
    /\ UNCHANGED << tunnel_proc, terminateCalls, tunnelPolls, returncode,
                    commands, submission, job_id, count, delayed, browser,
                    summary, idleTicks, exitStatus, exitCause, portFirstOpen,
                    finalHttp, stdout, result >>

(* one iteration of the MLflow loop: the HTTP check runs only if the port  *)
(* check succeeded ("and" short-circuits)                                  *)
MlflowPoll ==
    /\ pc = "mlflow_poll"
    /\ mflowPolls < MFLOW_RETRY
    /\ \E open \in BOOLEAN, http \in BOOLEAN :
         /\ mflowPolls' = mflowPolls + 1
         /\ lastPoll' = IF ~open THEN "port_closed"
                        ELSE IF http THEN "ok" ELSE "http_failed"
         /\ IF open /\ http
            THEN /\ pc' = "submit"
                 /\ mflow' = "reachable"
                 /\ events' = Append(events, "dashboard_reachable")
            ELSE /\ pc' = "mlflow_poll"
                 /\ mflow' = mflow
                 /\ events' = events
    /\ UNCHANGED << tunnel_proc, terminateCalls, tunnelPolls, returncode,
                    commands, submission, job_id, count, delayed, browser,
                    summary, idleTicks, exitStatus, exitCause,
                    portFirstOpen, finalHttp,
                    stdout, result >>

(* variant: an unreachable dashboard ends the run *)
MlflowWarn_Fatal ==
    /\ pc = "mlflow_poll"
    /\ mflowPolls = MFLOW_RETRY
    /\ pc' = "exited"
    /\ mflow' = "warned"
    /\ exitStatus' = 1
    /\ exitCause' = "dashboard_failure"
    /\ events' = Append(events, "dashboard_warning")
    /\ UNCHANGED << tunnel_proc, terminateCalls, tunnelPolls, mflowPolls,
                    lastPoll, returncode, commands, submission, job_id, count,
                    delayed, browser, summary, idleTicks, portFirstOpen,
                    finalHttp,
                    stdout, result >>

(* the else branch of the MLflow loop: warning, then go on *)
MlflowWarn ==
    /\ pc = "mlflow_poll"
    /\ mflowPolls = MFLOW_RETRY
    /\ pc' = "submit"
    /\ mflow' = "warned"
    /\ events' = Append(events, "dashboard_warning")
    /\ UNCHANGED << tunnel_proc, terminateCalls, tunnelPolls, mflowPolls,
                    lastPoll, returncode, commands, submission, job_id, count,
                    delayed, browser, summary, idleTicks, exitStatus,
                    exitCause,
                    portFirstOpen, finalHttp,
                    stdout, result >>

(* run_remote_command("sbatch ...train.sh"), then the parse of lines 102-106 *)
SubmitJob ==
    /\ pc = "submit"
    /\ \E rc \in ReturnCodes, out \in Stdouts :
         IF RemoteFailed(rc)
         THEN /\ RemoteExit("sbatch", rc)
              /\ UNCHANGED << submission, job_id >>
         ELSE /\ returncode' = rc
              /\ commands' = Append(commands, "sbatch")
              /\ submission' = RemoteValue(out)
              /\ job_id' = ParseJobId(RemoteValue(out))
              /\ events' = IF ParseJobId(RemoteValue(out)) = None
                            THEN events \o << "job_submitted", "parse_failed" >>
                            ELSE Append(events, "job_submitted")
              /\ pc' = IF JobIdTruthy(ParseJobId(RemoteValue(out)))
                        THEN "job_delay" ELSE "browser"
              /\ UNCHANGED << exitStatus, exitCause >>
    /\ UNCHANGED << tunnel_proc, terminateCalls, tunnelPolls, mflowPolls,
                    lastPoll, mflow, count, delayed, browser, summary,
                    idleTicks,
                    portFirstOpen, finalHttp,
                    stdout, result >>

(* time.sleep(JOB_CHECK_DELAY) *)
JobDelay ==
    /\ pc = "job_delay"
    /\ pc' = "job_query"
    /\ delayed' = TRUE
    /\ UNCHANGED << tunnel_proc, terminateCalls, tunnelPolls, mflowPolls,
                    lastPoll, mflow, returncode, commands, submission, job_id,
                    count, browser, summary, idleTicks, exitStatus, exitCause,
                    events,
                    portFirstOpen, finalHttp,
                    stdout, result >>

(* variant: a failed queue query is reported and the run goes on *)
QueryJob_ContinueOnFailure ==
    /\ pc = "job_query"
    /\ \E rc \in ReturnCodes, out \in CountStdouts :
         /\ returncode' = rc
         /\ commands' = Append(commands, "squeue")
         /\ pc' = "browser"
         /\ IF RemoteFailed(rc)
            THEN /\ count' = count
                 /\ events' = Append(events, "remote_failed")
            ELSE /\ count' = RemoteValue(out)
                 /\ events' = Append(events, IF JobRunning(RemoteValue(out))
                                             THEN "job_queued"
                                             ELSE "job_not_found")
    /\ UNCHANGED << tunnel_proc, terminateCalls, tunnelPolls, mflowPolls,
                    lastPoll, mflow, submission, job_id, delayed, browser,
                    summary, idleTicks, exitStatus, exitCause, portFirstOpen,
                    finalHttp, stdout, result >>

(* run_remote_command("squeue -j <id> -h | wc -l") and the verdict on count *)
QueryJob ==
    /\ pc = "job_query"
    /\ \E rc \in ReturnCodes, out \in CountStdouts :
         IF RemoteFailed(rc)
         THEN /\ RemoteExit("squeue", rc)
              /\ count' = count
         ELSE /\ returncode' = rc
              /\ commands' = Append(commands, "squeue")
              /\ count' = RemoteValue(out)
              /\ events' = Append(events, IF JobRunning(RemoteValue(out))
                                          THEN "job_queued"
                                          ELSE "job_not_found")
              /\ pc' = "browser"
              /\ UNCHANGED << exitStatus, exitCause >>
    /\ UNCHANGED << tunnel_proc, terminateCalls, tunnelPolls, mflowPolls,
                    lastPoll, mflow, submission, job_id, delayed, browser,
                    summary, idleTicks,
                    portFirstOpen, finalHttp,
                    stdout, result >>

(* variant: an exception of webbrowser.open is not caught *)
OpenBrowser_FailureFatal ==
    /\ pc = "browser"
    /\ \E raised \in BOOLEAN :
         /\ browser' = IF raised THEN "failed" ELSE "opened"
         /\ events' = Append(events, IF raised THEN "browser_failed"
                                               ELSE "browser_opened")
         /\ IF raised
            THEN /\ pc' = "exited"
                 /\ exitStatus' = 1
                 /\ exitCause' = "browser_failure"
            ELSE /\ pc' = "summary"
                 /\ UNCHANGED << exitStatus, exitCause >>
    /\ UNCHANGED << tunnel_proc, terminateCalls, tunnelPolls, mflowPolls,
                    lastPoll, mflow, returncode, commands, submission, job_id,
                    count, delayed, summary, idleTicks, portFirstOpen,
                    finalHttp, stdout, result >>

(* webbrowser.open(url); an exception is caught and reported *)
OpenBrowser ==
    /\ pc = "browser"
    /\ \E raised \in BOOLEAN :
         /\ browser' = IF raised THEN "failed" ELSE "opened"
         /\ events' = Append(events, IF raised THEN "browser_failed"
                                               ELSE "browser_opened")
    /\ pc' = "summary"
    /\ UNCHANGED << tunnel_proc, terminateCalls, tunnelPolls, mflowPolls,
                    lastPoll, mflow, returncode, commands, submission, job_id,
                    count, delayed, summary, idleTicks, exitStatus,
                    exitCause,
                    portFirstOpen, finalHttp,
                    stdout, result >>

(* the job line of the summary, lines 130-132 *)
JobLine(j, c) == IF JobIdTruthy(j) THEN YesNo(JobRunning(c)) ELSE "-"

(* variant: the summary repeats the verdict of the polling loop *)
MlflowLine_FromPolls(http, verdict) == YesNo(verdict = "reachable")

(* the MLflow line of the summary, line 129: a fresh HTTP check *)
MlflowLine(http, verdict) == YesNo(http)

(* variant: the summary asks the scheduler again *)
PrintSummary_Requery ==
    /\ pc = "summary"
    /\ \E open \in BOOLEAN, http \in BOOLEAN, out \in CountStdouts :
         /\ finalHttp' = IF http THEN "ok" ELSE "failed"
         /\ commands' = IF JobIdTruthy(job_id) THEN Append(commands, "squeue")
                                               ELSE commands
         /\ summary' = [printed |-> TRUE,
                        tunnel  |-> YesNo(open),
                        mlflow  |-> MlflowLine(http, mflow),
                        job     |-> JobLine(job_id, RemoteValue(out))]
    /\ pc' = "idle"
    /\ events' = events \o << "summary", "idle" >>
    /\ UNCHANGED << tunnel_proc, terminateCalls, tunnelPolls, mflowPolls,
                    lastPoll, mflow, returncode, submission, job_id, count,
                    delayed, browser, idleTicks, exitStatus, exitCause,
                    portFirstOpen, stdout, result >>

(* the verification summary, lines 127-134 *)
PrintSummary ==
    /\ pc = "summary"
    /\ \E open \in BOOLEAN, http \in BOOLEAN :
         /\ finalHttp' = IF http THEN "ok" ELSE "failed"
         /\ summary' = [printed |-> TRUE,
                        tunnel  |-> YesNo(open),
                        mlflow  |-> MlflowLine(http, mflow),
                        job     |-> JobLine(job_id, count)]
    /\ pc' = "idle"
    /\ events' = events \o << "summary", "idle" >>
    /\ UNCHANGED << tunnel_proc, terminateCalls, tunnelPolls, mflowPolls,
                    lastPoll, mflow, returncode, commands, submission, job_id,
                    count, delayed, browser, idleTicks, exitStatus,
                    exitCause,
                    portFirstOpen,
                    stdout, result >>

(* one time.sleep(60) of the idle loop returning *)
IdleSleep ==
    /\ pc = "idle"
    /\ idleTicks < MaxIdleTicks
    /\ idleTicks' = idleTicks + 1
    /\ UNCHANGED << pc, tunnel_proc, terminateCalls, tunnelPolls, mflowPolls,
                    lastPoll, mflow, returncode, commands, submission, job_id,
                    count, delayed, browser, summary, exitStatus, exitCause,
                    events,
                    portFirstOpen, finalHttp,
                    stdout, result >>

(* variant: sys.exit(0) without tunnel_proc.terminate() *)
IdleInterrupt_NoTerminate ==
    /\ pc = "idle"
    /\ pc' = "exited"
    /\ exitStatus' = 0
    /\ exitCause' = "idle_interrupt"
    /\ events' = Append(events, "terminated")
    /\ UNCHANGED << tunnel_proc, terminateCalls, tunnelPolls, mflowPolls,
                    lastPoll, mflow, returncode, commands, submission, job_id,
                    count, delayed, browser, summary, idleTicks,
                    portFirstOpen, finalHttp,
                    stdout, result >>

(* Ctrl-C in the idle loop: the except clause of lines 140-143 *)
IdleInterrupt ==
    /\ pc = "idle"
    /\ pc' = "exited"
    /\ tunnel_proc' = "terminated"
    /\ terminateCalls' = terminateCalls + 1
    /\ exitStatus' = 0
    /\ exitCause' = "idle_interrupt"
    /\ events' = Append(events, "terminated")
    /\ UNCHANGED << tunnelPolls, mflowPolls, lastPoll, mflow, returncode,
                    commands, submission, job_id, count, delayed, browser,
                    summary, idleTicks,
                    portFirstOpen, finalHttp,
                    stdout, result >>

(* Ctrl-C anywhere else: KeyboardInterrupt is caught by no handler         *)
(* ("except Exception" does not catch it) and ends the interpreter         *)
EarlyInterrupt ==
    /\ pc \notin {"idle", "exited"}
    /\ pc' = "exited"
    /\ exitStatus' \in UncaughtInterruptStatus
    /\ exitCause' = "uncaught_interrupt"
    /\ events' = Append(events, "interrupted")
    /\ UNCHANGED << tunnel_proc, terminateCalls, tunnelPolls, mflowPolls,
                    lastPoll, mflow, returncode, commands, submission, job_id,
                    count, delayed, browser, summary, idleTicks,
                    portFirstOpen, finalHttp,
                    stdout, result >>

Next ==
    \/ SpawnTunnel
    \/ TunnelPoll
    \/ TunnelFailure
    \/ RunGit
    \/ RunMlflowStart
    \/ MlflowPoll
    \/ MlflowWarn
    \/ SubmitJob
    \/ JobDelay
    \/ QueryJob
    \/ OpenBrowser
    \/ PrintSummary
    \/ IdleSleep
    \/ IdleInterrupt
    \/ EarlyInterrupt

Spec == Init /\ [][Next]_vars

(* a run that no Ctrl-C cuts short: every blocking call returns, and the   *)
(* interpreter goes on to the next statement                               *)
NextRun ==
    \/ SpawnTunnel
    \/ TunnelPoll
    \/ TunnelFailure
    \/ RunGit
    \/ RunMlflowStart
    \/ MlflowPoll
    \/ MlflowWarn
    \/ SubmitJob
    \/ JobDelay
    \/ QueryJob
    \/ OpenBrowser
    \/ PrintSummary
    \/ IdleSleep

RunSpec == Init /\ [][NextRun]_vars /\ WF_vars(NextRun)

----------------------------------------------------------------------------
(* run_remote_command on its own: subprocess.run has returned with the     *)
(* exit code in returncode and the captured text in stdout                 *)

RemoteInit ==
    /\ pc = "remote_call"
    /\ stdout \in Stdouts
    /\ returncode \in ReturnCodes
    /\ result = Unbound
    /\ tunnel_proc = "running"
    /\ terminateCalls = 0
    /\ tunnelPolls = 1
    /\ mflowPolls = 0
    /\ lastPoll = "none"
    /\ mflow = "pending"
    /\ commands = << >>
    /\ submission = Unbound
    /\ job_id = Unbound
    /\ count = Unbound
    /\ delayed = FALSE
    /\ browser = "none"
    /\ summary = NoSummary
    /\ idleTicks = 0
    /\ exitStatus = NoExit
    /\ exitCause = "none"
    /\ events = << "tunnel_spawned", "tunnel_up" >>
    /\ portFirstOpen = 1
    /\ finalHttp = "none"

(* lines 61-64: exit(1) on a non-zero code, else return result.stdout.strip() *)
RunRemoteCommand ==
    /\ pc = "remote_call"
    /\ IF RemoteFailed(returncode)
       THEN /\ pc' = "exited"
            /\ exitStatus' = 1
            /\ exitCause' = "remote_failure"
            /\ events' = Append(events, "remote_failed")
            /\ result' = result
       ELSE /\ pc' = "returned"
            /\ result' = RemoteValue(stdout)
            /\ UNCHANGED << exitStatus, exitCause, events >>
    /\ UNCHANGED << tunnel_proc, terminateCalls, tunnelPolls, mflowPolls,
                    lastPoll, mflow, returncode, commands, submission, job_id,
                    count, delayed, browser, summary, idleTicks,
                    portFirstOpen, finalHttp, stdout >>

RemoteNext == RunRemoteCommand

RemoteSpec == RemoteInit /\ [][RemoteNext]_vars

----------------------------------------------------------------------------
(* Helpers of the properties *)

InSeq(x, seq) == \E i \in 1..Len(seq) : seq[i] = x

Last(seq) == seq[Len(seq)]

Exited == pc = "exited"

Interrupted == exitCause \in {"uncaught_interrupt", "idle_interrupt"}

(* a scheduler job id: a non-empty run of digits *)
IsJobId(tok) == tok # << >> /\ \A i \in 1..Len(tok) : tok[i] \in Digits

(* text of the form "Submitted batch job <id>": its last token is a job id *)
EndsInJobId(text) == Split(text) # << >> /\ IsJobId(Last(Split(text)))

(* number of occurrences of x in seq *)
Count(x, seq) == Cardinality({i \in 1..Len(seq) : seq[i] = x})

(* the stages of a run, in the order of main *)
StageRanks ==
    [tunnel_up |-> 1, sync_done |-> 2, dashboard_reachable |-> 3,
     dashboard_warning |-> 3, job_submitted |-> 4, job_queued |-> 5,
     job_not_found |-> 5, summary |-> 6, idle |-> 7, terminated |-> 8]

(* 0 for an event that marks no stage *)
StageRank(e) == IF e \in DOMAIN StageRanks THEN StageRanks[e] ELSE 0

(* the stage events of seq from position i on have increasing ranks, all  *)
(* above hi                                                                *)
RECURSIVE StagesAscend(_, _, _)
StagesAscend(seq, i, hi) ==
    IF i > Len(seq) THEN TRUE
    ELSE LET r == StageRank(seq[i])
         IN  IF r = 0 THEN StagesAscend(seq, i + 1, hi)
             ELSE r > hi /\ StagesAscend(seq, i + 1, r)

(* the stage events among the events of the run, in the order they occurred *)
StageEvents == SelectSeq(events, LAMBDA e : StageRank(e) # 0)

(* position of the first x in seq (seq holds x) *)
Pos(x, seq) == CHOOSE i \in 1..Len(seq) : seq[i] = x /\ \A k \in 1..(i - 1) : seq[k] # x

(* the run is past the job stage and still going, or ended by Ctrl-C when idle *)
PastJobStage == pc \in {"browser", "summary", "idle"} \/ exitCause = "idle_interrupt"

----------------------------------------------------------------------------
(* C1: at every program exit after the tunnel subprocess was spawned       *)
(* (tunnel-poll failure, failed remote command, interrupt anywhere) the    *)
(* program has terminated the tunnel subprocess.                           *)
(* The code does not do this: sys.exit(1) in run_remote_command and an     *)
(* uncaught KeyboardInterrupt leave the subprocess running.                *)
C1_TunnelTerminatedAtEveryExit ==
    (Exited /\ tunnel_proc # "none") => tunnel_proc = "terminated"

(* C2: a remote command that returns a non-zero exit code ends the run     *)
(* there with status 1: nothing was done after the failing invocation,     *)
(* the browser was not opened and the summary was not printed.             *)
C2_FatalRemoteCommand ==
    returncode # 0 =>
        /\ Exited
        /\ exitStatus = 1
        /\ exitCause = "remote_failure"
        /\ Last(events) = "remote_failed"
        /\ browser = "none"
        /\ ~summary.printed
        /\ idleTicks = 0

C2_Witness ==
    /\ returncode = 255
    /\ Last(commands) = "squeue"
    /\ Exited

(* C3: when all TUNNEL_RETRY polls of start_ssh_tunnel failed and the     *)
(* loop was left, the tunnel process was terminated exactly once, the exit *)
(* status is 1, no remote command ran and no summary was printed.          *)
C3_TunnelFailure ==
    ( /\ tunnelPolls = TUNNEL_RETRY
      /\ portFirstOpen = 0
      /\ pc # "tunnel_poll"
      /\ exitCause # "uncaught_interrupt" ) =>
        /\ Exited
        /\ exitStatus = 1
        /\ terminateCalls = 1
        /\ tunnel_proc = "terminated"
        /\ commands = << >>
        /\ ~summary.printed

C3_Witness ==
    /\ exitCause = "tunnel_failure"
    /\ tunnelPolls = TUNNEL_RETRY
    /\ terminateCalls = 1

(* C4: if the port is first seen open on poll k, start_ssh_tunnel returns  *)
(* after exactly k polls: no further poll is made, and the tunnel process  *)
(* is not terminated by it (only Ctrl-C in the idle loop terminates it).   *)
C4_TunnelEarlyExit ==
    portFirstOpen # 0 =>
        /\ tunnelPolls = portFirstOpen
        /\ portFirstOpen <= TUNNEL_RETRY
        /\ pc # "tunnel_poll"
        /\ InSeq("tunnel_up", events)
        /\ exitCause # "tunnel_failure"
        /\ IF exitCause = "idle_interrupt"
           THEN terminateCalls = 1
           ELSE terminateCalls = 0 /\ tunnel_proc = "running"

C4_Witness ==
    /\ portFirstOpen = 2
    /\ tunnelPolls = 2
    /\ pc = "git"
    /\ tunnel_proc = "running"

(* C5 as claimed: after the sync step no outcome of the dashboard stage,   *)
(* the start command included, ends the run before the job submission.     *)
(* A non-zero exit code of start_mlflow.sh does end it.                    *)
C5_DashboardStageNeverFatal ==
    (InSeq("sync_done", events) /\ Exited /\ ~Interrupted) =>
        InSeq("sbatch", commands)

(* C5 amended: once the dashboard-start command has returned zero, every   *)
(* outcome of the port/HTTP polls leads to the job submission, after a     *)
(* warning when the retry budget ran out; a non-zero exit code of the      *)
(* start command ends the run with status 1.                               *)
C5_DashboardPollsNeverFatal ==
    /\ (InSeq("dashboard_started", events) /\ Exited /\ ~Interrupted) =>
           InSeq("sbatch", commands)
    /\ mflow = "warned" =>
           /\ InSeq("dashboard_warning", events)
           /\ mflowPolls = MFLOW_RETRY
           /\ lastPoll # "ok"
    /\ mflow = "reachable" => lastPoll = "ok" /\ ~InSeq("dashboard_warning", events)
    /\ mflow # "pending" =>
           \/ pc = "submit"
           \/ InSeq("sbatch", commands)
           \/ exitCause = "uncaught_interrupt"
    /\ (commands # << >> /\ Last(commands) = "mlflow" /\ returncode # 0) =>
           Exited /\ exitStatus = 1 /\ mflow = "pending"

C5_Witness ==
    /\ mflow = "warned"
    /\ InSeq("job_submitted", events)
    /\ pc = "idle"

(* C6 as claimed: a run that reaches the idle loop after the dashboard     *)
(* polls ran out has printed the summary with "MLflow running: no".        *)
(* The summary makes its own HTTP check, which may succeed by then.        *)
C6_DegradedSummarySaysNo ==
    (pc = "idle" /\ mflow = "warned") =>
        summary.printed /\ summary.mlflow = "no"

(* C6 amended: when the dashboard polls ran out and every remote command   *)
(* returned zero, the run is not ended by it (only Ctrl-C ends it), the    *)
(* summary is printed before the idle loop, and its MLflow line is "no"    *)
(* exactly when the HTTP check made for the summary fails too.             *)
C6_DegradedDashboardSummary ==
    /\ (mflow = "warned" /\ PastJobStage /\ pc \notin {"browser", "summary"}) =>
           /\ summary.printed
           /\ summary.tunnel \in {"yes", "no"}
           /\ summary.mlflow = "no" <=> finalHttp = "failed"
           /\ summary.mlflow = "yes" <=> finalHttp = "ok"
           /\ summary.job = "-" <=> job_id = None
    /\ (mflow = "warned" /\ pc = "idle") => exitStatus = NoExit
    /\ (mflow = "warned" /\ returncode = 0 /\ Exited) => Interrupted

C6_Witness ==
    /\ pc = "idle"
    /\ mflow = "warned"
    /\ summary.mlflow = "no"
    /\ summary.job = "yes"

(* C7: a response whose last token is a job id yields that id; every       *)
(* other response (empty, or text not ending in a job id) yields None.     *)
(* The code takes the last token of any non-empty text for the job id.     *)
C7_JobIdParsing ==
    submission # Unbound =>
        IF EndsInJobId(submission)
        THEN job_id = Last(Split(submission))
        ELSE job_id = None

(* C8 as claimed: status 0 only by Ctrl-C in the idle loop after the       *)
(* tunnel was terminated, every other exit has status 1.                   *)
(* Ctrl-C before the idle loop ends the interpreter with its own status.   *)
C8_EveryOtherExitIsOne ==
    Exited =>
        IF exitStatus = 0
        THEN exitCause = "idle_interrupt" /\ tunnel_proc = "terminated"
        ELSE exitStatus = 1

(* C8 amended: status 0 only by Ctrl-C in the idle loop, after the tunnel  *)
(* was terminated; once idle, only that Ctrl-C leaves the loop; an exit by *)
(* tunnel failure or failed remote command has status 1; Ctrl-C before the *)
(* idle loop is not caught and gives the interpreter's non-zero status.    *)
C8_ExitPaths ==
    /\ Exited <=> exitStatus # NoExit
    /\ exitStatus = 0 =>
           /\ exitCause = "idle_interrupt"
           /\ InSeq("idle", events)
           /\ tunnel_proc = "terminated"
           /\ terminateCalls = 1
    /\ InSeq("idle", events) => pc = "idle" \/ exitCause = "idle_interrupt"
    /\ exitCause = "idle_interrupt" => exitStatus = 0
    /\ exitCause \in {"tunnel_failure", "remote_failure"} => exitStatus = 1
    /\ exitCause = "uncaught_interrupt" =>
           exitStatus \in UncaughtInterruptStatus /\ ~InSeq("idle", events)
    /\ Exited => exitCause \in {"idle_interrupt", "tunnel_failure",
                                  "remote_failure", "uncaught_interrupt"}

C8_Witness ==
    /\ exitStatus = 0
    /\ idleTicks >= 1
    /\ tunnel_proc = "terminated"

(* C9: the delay and the queue query happen exactly when the submission    *)
(* gave a job id; with None there is no delay, no query, no job line in    *)
(* the summary, and the run goes on to the idle loop.                      *)
C9_JobVerificationGating ==
    /\ (delayed \/ InSeq("squeue", commands)) => job_id \notin {None, Unbound}
    /\ InSeq("squeue", commands) => delayed
    /\ PastJobStage =>
           /\ job_id # None <=> InSeq("squeue", commands)
           /\ job_id # None <=> delayed
    /\ job_id = None =>
           /\ count = Unbound
           /\ pc \notin {"job_delay", "job_query"}
           /\ summary.printed => summary.job = "-"
           /\ Exited => Interrupted
    /\ (summary.printed /\ job_id # None) => summary.job \in {"yes", "no"}

C9_Witness ==
    /\ job_id = None
    /\ pc = "idle"
    /\ summary.printed
    /\ ~delayed

(* C10: a count of "0" gives the warning, not an exit, and the summary     *)
(* says running: no; any other count is reported queued/running and the    *)
(* summary says running: yes.                                              *)
C10_JobNotFoundNonFatal ==
    count # Unbound =>
        /\ pc \in {"browser", "summary", "idle", "exited"}
        /\ IF count = << "0" >>
           THEN /\ InSeq("job_not_found", events)
                /\ ~InSeq("job_queued", events)
                /\ summary.printed => summary.job = "no"
                /\ Exited => Interrupted
           ELSE /\ InSeq("job_queued", events)
                /\ ~InSeq("job_not_found", events)
                /\ summary.printed => summary.job = "yes"

C10_Witness ==
    /\ count = << "0" >>
    /\ pc = "idle"
    /\ summary.job = "no"

(* C11: the tunnel subprocess is spawned at most once and git.sh,          *)
(* start_mlflow.sh and sbatch are each invoked at most once; only the      *)
(* polls repeat, at most TUNNEL_RETRY and MFLOW_RETRY times.               *)
C11_NoRetryOfMutatingActions ==
    /\ Count("tunnel_spawned", events) <= 1
    /\ tunnel_proc # "none" <=> Count("tunnel_spawned", events) = 1
    /\ \A c \in {"git", "mlflow", "sbatch"} : Count(c, commands) <= 1
    /\ tunnelPolls <= TUNNEL_RETRY
    /\ mflowPolls <= MFLOW_RETRY
    /\ returncode # 0 => Count(Last(commands), commands) = 1

C11_Witness ==
    /\ pc = "idle"
    /\ tunnelPolls = TUNNEL_RETRY
    /\ mflowPolls = MFLOW_RETRY
    /\ Count("git", commands) = 1
    /\ Count("mlflow", commands) = 1
    /\ Count("sbatch", commands) = 1

(* C12 as claimed: the value returned for exit code 0 is stdout with only  *)
(* its trailing whitespace removed, leading characters unchanged.          *)
(* strip() removes leading whitespace as well.                             *)
C12_TrailingOnly ==
    pc = "returned" =>
        \E n \in 0..Len(stdout) :
            /\ result = SubSeq(stdout, 1, n)
            /\ \A k \in (n + 1)..Len(stdout) : IsSpace(stdout[k])
            /\ n > 0 => ~IsSpace(stdout[n])

(* C12 amended: the value returned for exit code 0 is stdout with its      *)
(* leading and its trailing whitespace removed; the characters in          *)
(* between, inner whitespace included, are returned unchanged.             *)
C12_BothEndsTrimmed ==
    /\ pc = "returned" =>
           /\ returncode = 0
           /\ \E i \in 1..(Len(stdout) + 1), n \in 0..Len(stdout) :
                  /\ result = SubSeq(stdout, i, n)
                  /\ \A k \in 1..(i - 1) : IsSpace(stdout[k])
                  /\ \A k \in (n + 1)..Len(stdout) : IsSpace(stdout[k])
                  /\ i <= n => ~IsSpace(stdout[i]) /\ ~IsSpace(stdout[n])
    /\ pc = "exited" => returncode # 0 /\ result = Unbound /\ exitStatus = 1

C12_Witness ==
    /\ pc = "returned"
    /\ stdout = << " ", "j", " " >>
    /\ result = << "j" >>

(* C13: the stage events of a run occur in the order tunnel up, sync done, *)
(* dashboard attempted, job submitted, job verified (optional), summary,   *)
(* idle, terminated; no remote command runs before a tunnel poll           *)
(* succeeded; a run that reaches idle has passed every stage once.         *)
C13_StageOrder ==
    /\ StagesAscend(events, 1, 0)
    /\ commands # << >> => InSeq("tunnel_up", events) /\ portFirstOpen # 0
    /\ InSeq("idle", events) =>
           /\ {1, 2, 3, 4, 6, 7} \subseteq
                  {StageRank(events[i]) : i \in 1..Len(events)}
           /\ commands \in {<< "git", "mlflow", "sbatch" >>,
                             << "git", "mlflow", "sbatch", "squeue" >>}
    /\ InSeq("terminated", events) => InSeq("idle", events)

C13_Witness ==
    /\ exitCause = "idle_interrupt"
    /\ StageEvents = << "tunnel_up", "sync_done", "dashboard_warning",
                        "job_submitted", "job_queued", "summary", "idle",
                        "terminated" >>

(* C14 as claimed: the summary is printed first, the browser is opened    *)
(* after it.  The code opens the browser before it prints the summary.     *)
C14_SummaryBeforeBrowser ==
    browser # "none" => summary.printed

(* C14 amended: in every run that reaches the idle loop the browser is     *)
(* opened first, then the summary is printed, then the idle loop is        *)
(* entered; a failure to open the browser is caught and never ends the run. *)
C14_BrowserThenSummaryThenIdle ==
    /\ summary.printed => browser # "none"
    /\ InSeq("idle", events) =>
           LET b == IF browser = "failed" THEN "browser_failed"
                                          ELSE "browser_opened"
           IN  /\ summary.printed
               /\ Count(b, events) = 1
               /\ Pos(b, events) < Pos("summary", events)
               /\ Pos("summary", events) < Pos("idle", events)
               /\ Count("summary", events) = 1
    /\ browser # "none" =>
           /\ pc \in {"summary", "idle", "exited"}
           /\ Exited => Interrupted
    /\ pc = "summary" => browser # "none" /\ ~summary.printed

C14_Witness ==
    /\ browser = "failed"
    /\ pc = "idle"
    /\ summary.printed

(* C15: the summary stage issues no remote command; its job line comes    *)
(* from the count of the one queue query of the submission stage, so it    *)
(* always agrees with the verdict reported at verification time.           *)
C15_StaleJobStatus ==
    /\ summary.printed =>
           /\ commands \in {<< "git", "mlflow", "sbatch" >>,
                             << "git", "mlflow", "sbatch", "squeue" >>}
           /\ Len(commands) = 4 <=> job_id # None
           /\ returncode = 0
    /\ (summary.printed /\ job_id # None) =>
           /\ summary.job = "yes" <=> InSeq("job_queued", events)
           /\ summary.job = "no" <=> InSeq("job_not_found", events)
           /\ summary.job = "no" <=> count = << "0" >>
    /\ Count("squeue", commands) <= 1

C15_Witness ==
    /\ pc = "idle"
    /\ summary.job = "yes"
    /\ InSeq("job_queued", events)
    /\ Count("squeue", commands) = 1

(* C16: the dashboard loop stops at the first iteration in which the port *)
(* is open and the HTTP GET returns 200, without a warning; it makes at    *)
(* most MFLOW_RETRY iterations; the warning is printed exactly when the    *)
(* loop ended with no such iteration; an iteration makes the HTTP check    *)
(* only after its port check succeeded.                                    *)
C16_DashboardPolling ==
    /\ mflowPolls <= MFLOW_RETRY
    /\ lastPoll \in {"none", "port_closed", "http_failed", "ok"}
    /\ lastPoll = "none" <=> mflowPolls = 0
    /\ lastPoll = "ok" <=> mflow = "reachable"
    /\ mflow = "reachable" =>
           /\ pc # "mlflow_poll"
           /\ Count("dashboard_reachable", events) = 1
           /\ ~InSeq("dashboard_warning", events)
    /\ InSeq("dashboard_warning", events) <=> mflow = "warned"
    /\ mflow = "warned" =>
           /\ mflowPolls = MFLOW_RETRY
           /\ lastPoll \in {"port_closed", "http_failed"}
           /\ pc # "mlflow_poll"
           /\ Count("dashboard_warning", events) = 1
    /\ (pc = "submit" \/ InSeq("sbatch", commands)) => mflow # "pending"
    /\ mflow = "pending" =>
           pc \in {"start", "tunnel_poll", "git", "mlflow_start",
                    "mlflow_poll", "exited"}

C16_Witness ==
    /\ mflow = "reachable"
    /\ mflowPolls = 3
    /\ pc = "submit"

(* C17: whenever the summary evaluates the job line, count was assigned   *)
(* by the queue query of the same run: past the job stage the guard on     *)
(* job_id is true exactly when count is assigned.                          *)
C17_CountAssignedAtSummary ==
    /\ job_id # Unbound => job_id # << >>
    /\ ((pc = "summary" \/ summary.printed) /\ job_id \notin {None, Unbound}) =>
           /\ count # Unbound
           /\ Last(commands) = "squeue"
           /\ returncode = 0
    /\ PastJobStage => (count # Unbound <=> job_id # None)
    /\ summary.printed =>
           /\ summary.job \in {"-", "yes", "no"}
           /\ summary.job # "-" => count # Unbound
    /\ count # Unbound => delayed /\ Last(commands) = "squeue"

C17_Witness ==
    /\ pc = "summary"
    /\ job_id = << "1" >>
    /\ count = << "1" >>

(* C18: when every remote command and every port/HTTP check returns and   *)
(* no Ctrl-C arrives, a run eventually exits with status 1 or enters the   *)
(* idle loop, after at most TUNNEL_RETRY tunnel polls, MFLOW_RETRY         *)
(* dashboard polls and four remote commands; once idle it stays idle, the  *)
(* tunnel process not terminated.                                          *)
C18_TerminationAndIdle ==
    /\ <>(exitStatus = 1 \/ pc = "idle")
    /\ [](/\ tunnelPolls <= TUNNEL_RETRY
          /\ mflowPolls <= MFLOW_RETRY
          /\ Len(commands) <= 4
          /\ exitStatus \in {NoExit, 1}
          /\ pc = "idle" => /\ tunnel_proc = "running"
                            /\ terminateCalls = 0
                            /\ exitStatus = NoExit)
    /\ [][pc = "idle" => pc' = "idle"]_vars

C18_Witness ==
    /\ pc = "idle"
    /\ idleTicks >= 1
    /\ tunnelPolls = TUNNEL_RETRY
    /\ mflowPolls = MFLOW_RETRY
    /\ Len(commands) = 4
    /\ tunnel_proc = "running"

====
